---- MODULE Spec2Model ----
(***************************************************************************)
(* The stage execution and routing engine of the coaching conversation     *)
(* graph: every stage (node) records the transcript, suspends for the      *)
(* user's input, calls the model through retryLlmCall, and returns a       *)
(* partial state update that carries the routing flag.                     *)
(***************************************************************************)
EXTENDS Integers, Sequences, FiniteSets, TLC

(***************************************************************************)
(* Bounds of the model.                                                    *)
(***************************************************************************)
\* the run stops taking input once the transcript holds this many messages
MaxMessages == 21
\* consecutive failed turns explored at one suspension point
MaxFails == 1
\* the user's text and the refiner's choice vary during the first
\* VariedTurns turns of a run; later turns use the default text
VariedTurns == 1
\* changes of a derived fact counted within one episode
MaxChanges == 2
\* inputs each of the concurrent runs takes
MaxThreadTurns == 2

(***************************************************************************)
(* Program constants.                                                      *)
(***************************************************************************)
\* attempts made by retryLlmCall (reference behaviour of the invoker)
MAX_RETRIES == 3
\* "maximum of 4 interactions" of the disagreement exploration loop
INTERACTION_LIMIT == 4

(***************************************************************************)
(* Small input domains.                                                    *)
(***************************************************************************)
DEFAULT_TEXT == "fine"
UserTexts == {DEFAULT_TEXT, "overwhelmed"}
\* what the caller hands to the run on resume
RawInputs == [text : UserTexts]
Moods == {"", "assessing", "overwhelmed"}
Commitments == {"", "walk daily"}
Frequencies == {"", "daily"}
Dates == {"", "2025-01-01"}
REFINED == "refined"

HasKey(r, k) == k \in DOMAIN r
\* JS truthiness of an optional string field
Truthy(r, k) == HasKey(r, k) /\ r[k] # ""
\* JS truthiness of an optional boolean field
TruthyFlag(r, k) == HasKey(r, k) /\ r[k] = TRUE

\* { ...a, ...b }
Spread(a, b) ==
    [k \in (DOMAIN a) \cup (DOMAIN b) |-> IF k \in DOMAIN b THEN b[k] ELSE a[k]]

HumanMessage(content) == [role |-> "human", content |-> content]
AIMessage(content) == [role |-> "ai", content |-> content]

extractUserResponse(raw) == raw.text

(***************************************************************************)
(* What a stage's structured model call returns: the replies its schema   *)
(* admits, and a payload that lacks the response text.                     *)
(***************************************************************************)
PlainReplies ==
    [response : {"ok"}, proceed : BOOLEAN]
    \cup {[proceed |-> TRUE]}
MoodOptReplies ==
    [response : {"ok"}, proceed : BOOLEAN]
    \cup [response : {"ok"}, proceed : BOOLEAN, mood : Moods]
    \cup {[proceed |-> TRUE, mood |-> "overwhelmed"]}
MoodReplies ==
    [response : {"ok"}, proceed : BOOLEAN, mood : Moods]
    \cup {[proceed |-> TRUE, mood |-> "overwhelmed"]}
CommitmentReplies ==
    [response : {"ok"}, proceed : BOOLEAN]
    \cup [response : {"ok"}, proceed : BOOLEAN, commitment : Commitments]
    \cup {[proceed |-> TRUE, commitment |-> "walk daily"]}
ReminderReplies ==
    [response : {"ok"}]
    \cup [response : {"ok"}, reminder_accepted : BOOLEAN]
    \cup [response : {"ok"}, reminder_accepted : BOOLEAN,
          reminder_frequency : Frequencies]
    \cup [response : {"ok"}, reminder_accepted : BOOLEAN,
          reminder_date : Dates]
    \cup [response : {"ok"}, reminder_accepted : BOOLEAN,
          reminder_frequency : Frequencies, reminder_date : Dates]
    \cup {[reminder_accepted |-> TRUE,
           reminder_frequency |-> "daily"]}
\* the AIMessage a plain llm.invoke returns
TextReplies == [content : {"", " ", "ok"}]

(***************************************************************************)
(* Validators and the retrying invoker (utils/retry-llm.ts).               *)
(***************************************************************************)
\* a simple validator that accepts any text, the empty one included
validateSimpleResponseLax(r) ==
    HasKey(r, "content")

validateSimpleResponse(r) ==
    HasKey(r, "content") /\ r.content \notin {"", " "}

\* a structured validator that accepts whatever the model call returned
validateStructuredResponseLax(r) ==
    TRUE

validateStructuredResponse(r) ==
    HasKey(r, "response")

Accepts(validator, r) ==
    IF validator = "validateStructuredResponse"
    THEN validateStructuredResponse(r)
    ELSE validateSimpleResponse(r)

Min(S) == CHOOSE x \in S : \A y \in S : x <= y

\* retryLlmCall that loses the label of the stage
retryLlmCallUnlabelled(attempts, label, validator) ==
    LET accepted == {i \in 1..MAX_RETRIES :
                        /\ attempts[i].kind = "reply"
                        /\ Accepts(validator, attempts[i].value)}
    IN  IF accepted = {}
        THEN [ok |-> FALSE, calls |-> MAX_RETRIES,
              error |-> [name |-> "exhausted", label |-> "LLM"]]
        ELSE [ok |-> TRUE, calls |-> Min(accepted),
              value |-> attempts[Min(accepted)].value]

retryLlmCall(attempts, label, validator) ==
    LET accepted == {i \in 1..MAX_RETRIES :
                        /\ attempts[i].kind = "reply"
                        /\ Accepts(validator, attempts[i].value)}
    IN  IF accepted = {}
        THEN [ok |-> FALSE, calls |-> MAX_RETRIES,
              error |-> [name |-> "exhausted", label |-> label]]
        ELSE [ok |-> TRUE, calls |-> Min(accepted),
              value |-> attempts[Min(accepted)].value]

\* one attempt of the model call: it throws, or it returns a candidate
Thrown == [kind |-> "throw"]
Candidate(r) == [kind |-> "reply", value |-> r]
\* the attempts retryLlmCall makes in one node execution: failed attempts
\* (a throw or a rejected candidate), then an accepted candidate unless
\* all MAX_RETRIES attempts fail; an attempt that is never made is Thrown.
\* A node sees only the accepted candidate or the error, so the run takes
\* the two ends of each case: no failed attempt or MAX_RETRIES - 1 throws
\* before the accepted one, and MAX_RETRIES failed attempts of one kind.
\* AnyAttempts below takes every sequence of attempts.
Failures(replies, validator) ==
    {Thrown} \cup {Candidate(r) : r \in {x \in replies : ~Accepts(validator, x)}}
Successes(replies, validator) ==
    {Candidate(r) : r \in {x \in replies : Accepts(validator, x)}}
Attempts(replies, validator) ==
    LET F == Failures(replies, validator)
        S == Successes(replies, validator)
    IN  UNION {
          {[i \in 1..MAX_RETRIES |->
               IF i = n + 1 THEN c ELSE Thrown] : c \in S} :
          n \in {0, MAX_RETRIES - 1}}
        \cup {[i \in 1..MAX_RETRIES |-> f] : f \in F}

\* refineResponseWithHistory: the refiner model either keeps the text or
\* rewrites it; rewrite is the refiner's choice
refineResponseWithHistory(original, history, user_name, rewrite) ==
    IF rewrite THEN REFINED ELSE original

(***************************************************************************)
(* Persistence collaborators: a call is recorded with its argument.        *)
(***************************************************************************)
upsertChat(state) == [fn |-> "upsertChat", state |-> state]
upsertMood(state) == [fn |-> "upsertMood", state |-> state]
upsertCommitment(state) == [fn |-> "upsertCommitment", state |-> state]
upsertReminder(state) == [fn |-> "upsertReminder", state |-> state]

\* the names of the collaborators called, in order
Called(effects) == [i \in DOMAIN effects |-> effects[i].fn]
\* a collaborator whose failure reaches the node that awaits it
PersistThrows(res, fails) ==
    IF fails /\ res.effects # <<>>
    THEN [status |-> "threw", effects |-> <<res.effects[1]>>,
          update |-> <<>>, modelCalls |-> 0,
          error |-> [name |-> "persistence", label |-> res.effects[1].fn],
          failed |-> TRUE, logged |-> <<>>]
    ELSE [k \in (DOMAIN res) \cup {"failed", "logged"} |->
             IF k = "failed" THEN FALSE
             ELSE IF k = "logged" THEN <<>> ELSE res[k]]

\* what the collaborators' outcome does to a node execution: a failing
\* collaborator logs its error and returns, the node goes on
Persist(res, fails) ==
    [k \in (DOMAIN res) \cup {"failed", "logged"} |->
        IF k = "failed" THEN fails /\ res.effects # <<>>
        ELSE IF k = "logged"
        THEN IF fails THEN Called(res.effects) ELSE <<>>
        ELSE res[k]]

(***************************************************************************)
(* interrupt: without a resume value the node stops there; the resumed     *)
(* run executes the node function again from its first statement and      *)
(* interrupt returns the value.                                            *)
(***************************************************************************)
NoResume == [has |-> FALSE]
ResumeWith(raw) == [has |-> TRUE, value |-> raw]
interrupt(resume) ==
    IF resume.has THEN [suspend |-> FALSE, value |-> resume.value]
    ELSE [suspend |-> TRUE]

\* the three ways one execution of a node function ends
\* a node that writes its prompt into the transcript before it suspends
InterruptedAfterWrite(effects) ==
    [status |-> "interrupted", effects |-> effects,
     update |-> [messages |-> <<AIMessage("Please answer")>>],
     modelCalls |-> 0]

Interrupted(effects) ==
    [status |-> "interrupted", effects |-> effects, update |-> <<>>,
     modelCalls |-> 0]
Threw(effects, response) ==
    [status |-> "threw", effects |-> effects, update |-> <<>>,
     modelCalls |-> response.calls, error |-> response.error]
Returned(effects, response, update) ==
    [status |-> "returned", effects |-> effects, update |-> update,
     modelCalls |-> response.calls, reply |-> response.value]

(***************************************************************************)
(* The node functions.  attempts is what the model does on each attempt    *)
(* of this execution and rewrite what the refiner does.                    *)
(***************************************************************************)
\* a returned execution of an entry node, with the messages it sent to
\* the model after the system prompt
Greeted(res, messages) == Spread(res, [sent |-> messages])

\* node1a1 that marks the mood stage as resolved
node1a1WritesFlag(state, resume, attempts, rewrite) ==
    LET humanMessage == HumanMessage("Hi")
        messages == <<humanMessage>>
        response == retryLlmCall(attempts, "Node 1a1", "validateSimpleResponse")
        refinedResponse ==
            refineResponseWithHistory(response.value.content, state.messages,
                                      state.user_name, rewrite)
    IN  IF ~response.ok THEN Threw(<<>>, response)
        ELSE Greeted(Returned(<<>>, response,
                              [messages |-> <<AIMessage(refinedResponse)>>,
                               proceed_node_2 |-> TRUE]),
                     messages)

node1a1(state, resume, attempts, rewrite) ==
    LET humanMessage == HumanMessage("Hi")
        messages == <<humanMessage>>
        response == retryLlmCall(attempts, "Node 1a1", "validateSimpleResponse")
        refinedResponse ==
            refineResponseWithHistory(response.value.content, state.messages,
                                      state.user_name, rewrite)
    IN  IF ~response.ok THEN Threw(<<>>, response)
        ELSE Greeted(Returned(<<>>, response,
                              [messages |-> <<AIMessage(refinedResponse)>>]),
                     messages)

\* node1b1 that returns the greeting it sent together with the reply
node1b1RecordsGreeting(state, resume, attempts, rewrite) ==
    LET chat == <<upsertChat(state)>>
        humanMessage == HumanMessage("Hi")
        messages == <<humanMessage>>
        response == retryLlmCall(attempts, "Node 1b1", "validateSimpleResponse")
        refinedResponse ==
            refineResponseWithHistory(response.value.content, state.messages,
                                      state.user_name, rewrite)
    IN  IF ~response.ok THEN Threw(chat, response)
        ELSE Greeted(Returned(chat, response,
                              [messages |-> <<humanMessage,
                                              AIMessage(refinedResponse)>>]),
                     messages)

node1b1(state, resume, attempts, rewrite) ==
    LET chat == <<upsertChat(state)>>
        humanMessage == HumanMessage("Hi")
        messages == <<humanMessage>>
        response == retryLlmCall(attempts, "Node 1b1", "validateSimpleResponse")
        refinedResponse ==
            refineResponseWithHistory(response.value.content, state.messages,
                                      state.user_name, rewrite)
    IN  IF ~response.ok THEN Threw(chat, response)
        ELSE Greeted(Returned(chat, response,
                              [messages |-> <<AIMessage(refinedResponse)>>]),
                     messages)

node1a2(state, resume, attempts, rewrite) ==
    LET chat == <<upsertChat(state)>>
        rawUserResponse == interrupt(resume)
        userResponse == extractUserResponse(rawUserResponse.value)
        response == retryLlmCall(attempts, "Node 1a2", "validateSimpleResponse")
        refinedResponse ==
            refineResponseWithHistory(response.value.content, state.messages,
                                      state.user_name, rewrite)
    IN  IF rawUserResponse.suspend THEN Interrupted(chat)
        ELSE IF ~response.ok THEN Threw(chat, response)
        ELSE Returned(chat, response,
                      [messages |-> <<HumanMessage(userResponse),
                                      AIMessage(refinedResponse)>>])

\* the body shared by the stages that return { messages, proceed_node_N }
FlagStage(state, resume, attempts, rewrite, label, flag) ==
    LET chat == <<upsertChat(state)>>
        rawUserResponse == interrupt(resume)
        userResponse == extractUserResponse(rawUserResponse.value)
        response == retryLlmCall(attempts, label, "validateStructuredResponse")
        refinedResponse ==
            refineResponseWithHistory(response.value.response, state.messages,
                                      state.user_name, rewrite)
        proceed == response.value.proceed
    IN  IF rawUserResponse.suspend THEN Interrupted(chat)
        ELSE IF ~response.ok THEN Threw(chat, response)
        ELSE Returned(chat, response,
                      [k \in {"messages", flag} |->
                          IF k = "messages"
                          THEN <<HumanMessage(userResponse),
                                 AIMessage(refinedResponse)>>
                          ELSE proceed])

\* node3 that takes its flag from the refinement step
node3FlagFromRefiner(state, resume, attempts, rewrite) ==
    LET res == FlagStage(state, resume, attempts, rewrite, "Node 3",
                         "proceed_node_3")
    IN  IF res.status # "returned" THEN res
        ELSE [res EXCEPT !.update.proceed_node_3 = rewrite]

node3(state, resume, attempts, rewrite) ==
    FlagStage(state, resume, attempts, rewrite, "Node 3", "proceed_node_3")
\* node3retry that stores the user's answer as the user's name
node3retryRenames(state, resume, attempts, rewrite) ==
    LET res == FlagStage(state, resume, attempts, rewrite, "Node 3_retry",
                         "proceed_node_3")
    IN  IF res.status # "returned" THEN res
        ELSE [res EXCEPT !.update =
                 Spread(@, [user_name |-> extractUserResponse(resume.value)])]

node3retry(state, resume, attempts, rewrite) ==
    FlagStage(state, resume, attempts, rewrite, "Node 3_retry", "proceed_node_3")
\* node4 that appends the human message once per attempt of the model call
node4PerAttempt(state, resume, attempts, rewrite) ==
    LET res == FlagStage(state, resume, attempts, rewrite, "Node 4",
                         "proceed_node_4")
    IN  IF res.status # "returned" THEN res
        ELSE [res EXCEPT !.update.messages =
                 [i \in 1..(res.modelCalls - 1) |-> @[1]] \o @]

node4(state, resume, attempts, rewrite) ==
    FlagStage(state, resume, attempts, rewrite, "Node 4", "proceed_node_4")
\* node4retry without a suspension point: scheduled, it answers at once
node4retryNoInterrupt(state, resume, attempts, rewrite) ==
    IF resume.has
    THEN FlagStage(state, resume, attempts, rewrite, "Node 4_retry",
                   "proceed_node_4")
    ELSE Returned(<<upsertChat(state)>>,
                  [calls |-> 1,
                   value |-> [response |-> "ok", proceed |-> FALSE]],
                  [messages |-> <<AIMessage("ok")>>,
                   proceed_node_4 |-> FALSE])

node4retry(state, resume, attempts, rewrite) ==
    FlagStage(state, resume, attempts, rewrite, "Node 4_retry", "proceed_node_4")
\* node5 that returns the assistant reply without the user's message
node5OmitsHuman(state, resume, attempts, rewrite) ==
    LET res == FlagStage(state, resume, attempts, rewrite, "Node 5",
                         "proceed_node_5")
    IN  IF res.status # "returned" THEN res
        ELSE [res EXCEPT !.update.messages = <<@[2]>>]

node5(state, resume, attempts, rewrite) ==
    FlagStage(state, resume, attempts, rewrite, "Node 5", "proceed_node_5")
node5retry(state, resume, attempts, rewrite) ==
    FlagStage(state, resume, attempts, rewrite, "Node 5_retry", "proceed_node_5")
\* node6 that, resumed with an input, suspends for another one
node6SuspendsAgain(state, resume, attempts, rewrite) ==
    Interrupted(<<upsertChat(state)>>)

node6(state, resume, attempts, rewrite) ==
    FlagStage(state, resume, attempts, rewrite, "Node 6", "proceed_node_6")
\* node6retry that also sets the flag of the stage that follows
node6retryTwoFlags(state, resume, attempts, rewrite) ==
    LET res == FlagStage(state, resume, attempts, rewrite, "Node 6_retry",
                         "proceed_node_6")
    IN  IF res.status # "returned" THEN res
        ELSE [res EXCEPT !.update =
                 Spread(@, [proceed_node_7 |-> res.update.proceed_node_6])]

node6retry(state, resume, attempts, rewrite) ==
    FlagStage(state, resume, attempts, rewrite, "Node 6_retry", "proceed_node_6")
node7(state, resume, attempts, rewrite) ==
    FlagStage(state, resume, attempts, rewrite, "Node 7", "proceed_node_7")
\* node7retry that returns its messages without the flag
node7retryNoFlag(state, resume, attempts, rewrite) ==
    LET res == FlagStage(state, resume, attempts, rewrite, "Node 7_retry",
                         "proceed_node_7")
    IN  IF res.status # "returned" THEN res
        ELSE [res EXCEPT !.update = [messages |-> @.messages]]

node7retry(state, resume, attempts, rewrite) ==
    FlagStage(state, resume, attempts, rewrite, "Node 7_retry", "proceed_node_7")
\* node10 that clears the mood when it returns
node10ClearsMood(state, resume, attempts, rewrite) ==
    LET res == FlagStage(state, resume, attempts, rewrite, "Node 10",
                         "proceed_node_10")
    IN  IF res.status # "returned" THEN res
        ELSE [res EXCEPT !.update = Spread(@, [mood |-> ""])]

node10(state, resume, attempts, rewrite) ==
    FlagStage(state, resume, attempts, rewrite, "Node 10", "proceed_node_10")

\* node2 that stores the mood without logging it to the backend
node2NoUpsertMood(state, resume, attempts, rewrite) ==
    LET chat == <<upsertChat(state)>>
        rawUserResponse == interrupt(resume)
        userResponse == extractUserResponse(rawUserResponse.value)
        response == retryLlmCall(attempts, "Node 2", "validateStructuredResponse")
        refinedResponse ==
            refineResponseWithHistory(response.value.response, state.messages,
                                      state.user_name, rewrite)
        base == [messages |-> <<HumanMessage(userResponse),
                                AIMessage(refinedResponse)>>,
                 proceed_node_2 |-> response.value.proceed]
    IN  IF rawUserResponse.suspend THEN Interrupted(chat)
        ELSE IF ~response.ok THEN Threw(chat, response)
        ELSE IF Truthy(response.value, "mood")
                /\ response.value.mood # "assessing"
        THEN Returned(chat, response,
                      Spread(base, [mood |-> response.value.mood]))
        ELSE Returned(chat, response, base)

node2(state, resume, attempts, rewrite) ==
    LET chat == <<upsertChat(state)>>
        rawUserResponse == interrupt(resume)
        userResponse == extractUserResponse(rawUserResponse.value)
        response == retryLlmCall(attempts, "Node 2", "validateStructuredResponse")
        refinedResponse ==
            refineResponseWithHistory(response.value.response, state.messages,
                                      state.user_name, rewrite)
        proceed == response.value.proceed
        base == [messages |-> <<HumanMessage(userResponse),
                                AIMessage(refinedResponse)>>,
                 proceed_node_2 |-> proceed]
        stateUpdate == Spread(base, [mood |-> response.value.mood])
        updatedState == Spread(state, stateUpdate)
    IN  IF rawUserResponse.suspend THEN Interrupted(chat)
        ELSE IF ~response.ok THEN Threw(chat, response)
        ELSE IF Truthy(response.value, "mood")
                /\ response.value.mood # "assessing"
        THEN Returned(chat \o <<upsertMood(updatedState)>>, response,
                      stateUpdate)
        ELSE Returned(chat, response, base)

\* the body of node2retry
MoodRetryStage(state, resume, attempts, rewrite) ==
    LET chat == <<upsertChat(state)>>
        rawUserResponse == interrupt(resume)
        userResponse == extractUserResponse(rawUserResponse.value)
        response ==
            retryLlmCall(attempts, "Node 2_retry", "validateStructuredResponse")
        refinedResponse ==
            refineResponseWithHistory(response.value.response, state.messages,
                                      state.user_name, rewrite)
        proceed == response.value.proceed
        mood == response.value.mood
        stateUpdate == [messages |-> <<HumanMessage(userResponse),
                                       AIMessage(refinedResponse)>>,
                        proceed_node_2 |-> proceed,
                        mood |-> mood]
        updatedState == Spread(state, stateUpdate)
    IN  IF rawUserResponse.suspend THEN Interrupted(chat)
        ELSE IF ~response.ok THEN Threw(chat, response)
        ELSE IF mood # "" /\ mood # "assessing"
        THEN Returned(chat \o <<upsertMood(updatedState)>>, response,
                      stateUpdate)
        ELSE Returned(chat, response, stateUpdate)

\* node2retry that logs the mood it writes whatever the mood is
node2retryLogsAnyMood(state, resume, attempts, rewrite) ==
    LET res == MoodRetryStage(state, resume, attempts, rewrite)
    IN  IF res.status # "returned" \/ Len(res.effects) > 1 THEN res
        ELSE [res EXCEPT !.effects =
                 @ \o <<upsertMood(Spread(state, res.update))>>]

node2retry(state, resume, attempts, rewrite) ==
    MoodRetryStage(state, resume, attempts, rewrite)

\* the body shared by node8 and node8retry
CommitmentStage(state, resume, attempts, rewrite, label) ==
    LET chat == <<upsertChat(state)>>
        rawUserResponse == interrupt(resume)
        userResponse == extractUserResponse(rawUserResponse.value)
        response == retryLlmCall(attempts, label, "validateStructuredResponse")
        refinedResponse ==
            refineResponseWithHistory(response.value.response, state.messages,
                                      state.user_name, rewrite)
        proceed == response.value.proceed
        base == [messages |-> <<HumanMessage(userResponse),
                                AIMessage(refinedResponse)>>,
                 proceed_node_8 |-> proceed]
        stateUpdate == Spread(base, [commitment |-> response.value.commitment])
        updatedState == Spread(state, stateUpdate)
    IN  IF rawUserResponse.suspend THEN Interrupted(chat)
        ELSE IF ~response.ok THEN Threw(chat, response)
        ELSE IF proceed /\ Truthy(response.value, "commitment")
        THEN Returned(chat \o <<upsertCommitment(updatedState)>>, response,
                      stateUpdate)
        ELSE Returned(chat, response, base)

\* node8 that makes up a reply when the retries are exhausted
node8Fabricates(state, resume, attempts, rewrite) ==
    LET res == CommitmentStage(state, resume, attempts, rewrite, "Node 8")
    IN  IF res.status # "threw" THEN res
        ELSE Returned(res.effects,
                      [calls |-> MAX_RETRIES,
                       value |-> [response |-> "ok", proceed |-> FALSE]],
                      [messages |-> <<HumanMessage(extractUserResponse(resume.value)),
                                      AIMessage("ok")>>,
                       proceed_node_8 |-> FALSE])

node8(state, resume, attempts, rewrite) ==
    CommitmentStage(state, resume, attempts, rewrite, "Node 8")
\* node8retry with a cap that forces the signal to resolved
node8retryForced(state, resume, attempts, rewrite) ==
    LET res == CommitmentStage(state, resume, attempts, rewrite, "Node 8_retry")
    IN  IF res.status # "returned" THEN res
        ELSE [res EXCEPT !.update.proceed_node_8 = TRUE]

node8retry(state, resume, attempts, rewrite) ==
    CommitmentStage(state, resume, attempts, rewrite, "Node 8_retry")

\* the body of node9
ReminderStage(state, resume, attempts, rewrite) ==
    LET chat == <<upsertChat(state)>>
        rawUserResponse == interrupt(resume)
        userResponse == extractUserResponse(rawUserResponse.value)
        response == retryLlmCall(attempts, "Node 9", "validateStructuredResponse")
        r == response.value
        refinedResponse ==
            refineResponseWithHistory(r.response, state.messages,
                                      state.user_name, rewrite)
        base == [messages |-> <<HumanMessage(userResponse),
                                AIMessage(refinedResponse)>>]
        accepted == Spread(base, [reminder_accepted |-> r.reminder_accepted])
        withFrequency ==
            IF Truthy(r, "reminder_frequency")
            THEN Spread(accepted, [reminder_frequency |-> r.reminder_frequency])
            ELSE accepted
        stateUpdate ==
            IF Truthy(r, "reminder_date")
            THEN Spread(withFrequency, [reminder_date |-> r.reminder_date])
            ELSE withFrequency
        updatedState == Spread(state, stateUpdate)
    IN  IF rawUserResponse.suspend THEN Interrupted(chat)
        ELSE IF ~response.ok THEN Threw(chat, response)
        ELSE IF ~TruthyFlag(r, "reminder_accepted")
        THEN Returned(chat, response, base)
        ELSE IF HasKey(stateUpdate, "reminder_frequency")
                \/ HasKey(stateUpdate, "reminder_date")
        THEN Returned(chat \o <<upsertReminder(updatedState)>>, response,
                      stateUpdate)
        ELSE Returned(chat, response, stateUpdate)

\* node9 that records a reminder whatever the user decided
node9AlwaysRecords(state, resume, attempts, rewrite) ==
    LET res == ReminderStage(state, resume, attempts, rewrite)
    IN  IF res.status # "returned" \/ Len(res.effects) > 1 THEN res
        ELSE [res EXCEPT !.effects =
                 @ \o <<upsertReminder(Spread(state, res.update))>>]

node9(state, resume, attempts, rewrite) ==
    ReminderStage(state, resume, attempts, rewrite)

(***************************************************************************)
(* The graph: which node runs after a node has returned.  A conditional    *)
(* edge reads the routing flag of the state the node's update was merged   *)
(* into.                                                                   *)
(***************************************************************************)
next1a1(state) == "1a2"
next1b1(state) == "2"
next1a2(state) == "2"
next2(state) == IF state.proceed_node_2 THEN "3" ELSE "2_retry"
next2retry(state) == IF state.proceed_node_2 THEN "3" ELSE "2_retry"
next3(state) == IF state.proceed_node_3 THEN "4" ELSE "3_retry"
next3retry(state) == IF state.proceed_node_3 THEN "4" ELSE "3_retry"
next4(state) == IF state.proceed_node_4 THEN "5" ELSE "4_retry"
next4retry(state) == IF state.proceed_node_4 THEN "5" ELSE "4_retry"
next5(state) == IF state.proceed_node_5 THEN "6" ELSE "5_retry"
next5retry(state) == IF state.proceed_node_5 THEN "6" ELSE "5_retry"
next6(state) == IF state.proceed_node_6 THEN "7" ELSE "6_retry"
\* the edge of node6retry led back to the primary stage
next6retryToPrimary(state) == IF state.proceed_node_6 THEN "7" ELSE "6"
next6retry(state) == IF state.proceed_node_6 THEN "7" ELSE "6_retry"
next7(state) == IF state.proceed_node_7 THEN "8" ELSE "7_retry"
next7retry(state) == IF state.proceed_node_7 THEN "8" ELSE "7_retry"
next8(state) == IF state.proceed_node_8 THEN "9" ELSE "8_retry"
next8retry(state) == IF state.proceed_node_8 THEN "9" ELSE "8_retry"
\* the reminder stage as the end of the run
next9ToEnd(state) == "END"
next9(state) == "10"
next10(state) == IF state.proceed_node_10 THEN "END" ELSE "10"

EntryNodes == {"1a1", "1b1"}
PrimaryNodes == {"2", "3", "4", "5", "6", "7", "8"}
RetryNodes == {"2_retry", "3_retry", "4_retry", "5_retry", "6_retry",
               "7_retry", "8_retry"}
SuspendingNodes == {"1a2", "9", "10"} \cup PrimaryNodes \cup RetryNodes

RetryOf(n) ==
    CASE n = "2" -> "2_retry" [] n = "3" -> "3_retry" [] n = "4" -> "4_retry"
      [] n = "5" -> "5_retry" [] n = "6" -> "6_retry" [] n = "7" -> "7_retry"
      [] n = "8" -> "8_retry"
\* the logical stage a node belongs to
StageOf(n) ==
    IF n \in RetryNodes THEN CHOOSE p \in PrimaryNodes : RetryOf(p) = n ELSE n
\* the stage that follows a logical stage in the sequence
Successor(p) ==
    CASE p = "2" -> "3" [] p = "3" -> "4" [] p = "4" -> "5" [] p = "5" -> "6"
      [] p = "6" -> "7" [] p = "7" -> "8" [] p = "8" -> "9"
FlagOf(n) ==
    IF n = "10" THEN "proceed_node_10"
    ELSE CASE StageOf(n) = "2" -> "proceed_node_2"
           [] StageOf(n) = "3" -> "proceed_node_3"
           [] StageOf(n) = "4" -> "proceed_node_4"
           [] StageOf(n) = "5" -> "proceed_node_5"
           [] StageOf(n) = "6" -> "proceed_node_6"
           [] StageOf(n) = "7" -> "proceed_node_7"
           [] StageOf(n) = "8" -> "proceed_node_8"

Route(n, state) ==
    CASE n = "1a1" -> next1a1(state)
      [] n = "1b1" -> next1b1(state)
      [] n = "1a2" -> next1a2(state)
      [] n = "2" -> next2(state)
      [] n = "2_retry" -> next2retry(state)
      [] n = "3" -> next3(state)
      [] n = "3_retry" -> next3retry(state)
      [] n = "4" -> next4(state)
      [] n = "4_retry" -> next4retry(state)
      [] n = "5" -> next5(state)
      [] n = "5_retry" -> next5retry(state)
      [] n = "6" -> next6(state)
      [] n = "6_retry" -> next6retry(state)
      [] n = "7" -> next7(state)
      [] n = "7_retry" -> next7retry(state)
      [] n = "8" -> next8(state)
      [] n = "8_retry" -> next8retry(state)
      [] n = "9" -> next9(state)
      [] n = "10" -> next10(state)

\* one execution of the function of node n
RunNode(n, state, resume, attempts, rewrite) ==
    CASE n = "1a1" -> node1a1(state, resume, attempts, rewrite)
      [] n = "1b1" -> node1b1(state, resume, attempts, rewrite)
      [] n = "1a2" -> node1a2(state, resume, attempts, rewrite)
      [] n = "2" -> node2(state, resume, attempts, rewrite)
      [] n = "2_retry" -> node2retry(state, resume, attempts, rewrite)
      [] n = "3" -> node3(state, resume, attempts, rewrite)
      [] n = "3_retry" -> node3retry(state, resume, attempts, rewrite)
      [] n = "4" -> node4(state, resume, attempts, rewrite)
      [] n = "4_retry" -> node4retry(state, resume, attempts, rewrite)
      [] n = "5" -> node5(state, resume, attempts, rewrite)
      [] n = "5_retry" -> node5retry(state, resume, attempts, rewrite)
      [] n = "6" -> node6(state, resume, attempts, rewrite)
      [] n = "6_retry" -> node6retry(state, resume, attempts, rewrite)
      [] n = "7" -> node7(state, resume, attempts, rewrite)
      [] n = "7_retry" -> node7retry(state, resume, attempts, rewrite)
      [] n = "8" -> node8(state, resume, attempts, rewrite)
      [] n = "8_retry" -> node8retry(state, resume, attempts, rewrite)
      [] n = "9" -> node9(state, resume, attempts, rewrite)
      [] n = "10" -> node10(state, resume, attempts, rewrite)

\* the replies the schema of node n admits
Replies(n) ==
    CASE n \in {"1a1", "1b1", "1a2"} -> TextReplies
      [] n = "2" -> MoodOptReplies
      [] n = "2_retry" -> MoodReplies
      [] n \in {"8", "8_retry"} -> CommitmentReplies
      [] n = "9" -> ReminderReplies
      [] OTHER -> PlainReplies

ValidatorOf(n) ==
    IF n \in {"1a1", "1b1", "1a2"} THEN "validateSimpleResponse"
    ELSE "validateStructuredResponse"

(***************************************************************************)
(* ConversationState: the channels of the graph state and their merge.     *)
(***************************************************************************)
InitialState ==
    [messages |-> <<>>, user_name |-> "Ada", user_summary |-> "steady",
     archetype |-> "explorer", time |-> "09:00"]

\* every channel, messages included, takes the last value
ApplyUpdateLastValue(state, update) ==
    [k \in (DOMAIN state) \cup (DOMAIN update) |->
        IF k \in DOMAIN update THEN update[k] ELSE state[k]]

\* messages is concatenated, every other channel takes the last value
ApplyUpdate(state, update) ==
    [k \in (DOMAIN state) \cup (DOMAIN update) |->
        IF k \notin DOMAIN update THEN state[k]
        ELSE IF k = "messages" THEN state.messages \o update.messages
        ELSE update[k]]

(***************************************************************************)
(* The run.                                                                *)
(*   st      the ConversationState of the checkpoint                       *)
(*   node    the node that runs next, or is suspended, "END" after halt    *)
(*   pc      "start", "enter" (node scheduled), "suspended", "halted"      *)
(*   effects the persistence calls made by the last node execution         *)
(*   last    the last node execution: the node, the state and input it     *)
(*           ran with, how it ended, the state the node was entered with   *)
(*           and the upsertChat calls made for it: those made when the     *)
(*           node suspended and those of the execution itself              *)
(*   exec    the current visit of a node: upsertChat calls made when it    *)
(*           suspended, failed turns, and the state it was entered with    *)
(*   streak  consecutive "not yet resolved" signals of one logical stage   *)
(*   episode the derived fact being elicited: its owning stage and how     *)
(*           often the fact's value in the state has changed since the     *)
(*           stage was first entered                                       *)
(*   invocation  one call of retryLlmCall taken on its own                 *)
(*   threads the checkpoints of the concurrent runs, by thread id, and     *)
(*           for each run the checkpoint it has when it runs alone         *)
(***************************************************************************)
VARIABLES st, node, pc, effects, last, exec, streak, episode, invocation,
          threads

vars == <<st, node, pc, effects, last, exec, streak, episode, invocation,
          threads>>

\* the inputs of the turn taken from state s
TurnInputs(s) ==
    IF Len(s.messages) < 2 * VariedTurns THEN RawInputs
    ELSE {[text |-> DEFAULT_TEXT]}
TurnRewrites(s) ==
    IF Len(s.messages) < 2 * VariedTurns THEN BOOLEAN ELSE {FALSE}
\* whether the persistence collaborators fail during the turn
TurnFailures(s) ==
    IF Len(s.messages) < 2 * VariedTurns THEN BOOLEAN ELSE {FALSE}

FirstTry(reply) ==
    [i \in 1..MAX_RETRIES |-> IF i = 1 THEN Candidate(reply) ELSE Thrown]

NoStreak == [stage |-> "none", n |-> 0, retries |-> 0]
NewVisit(state) == [chat |-> 0, fails |-> 0, before |-> state]
CountCalls(e, fn) == Cardinality({i \in DOMAIN e : e[i].fn = fn})
NoInvocation == [done |-> FALSE]
NoThreads == [cp |-> <<>>, solo |-> <<>>]

\* the nodes that elicit a derived fact, and the channels of the fact
FactNodes == {"2", "2_retry", "8", "8_retry", "9"}
FactFields(n) ==
    CASE n \in {"2", "2_retry"} -> {"mood"}
      [] n \in {"8", "8_retry"} -> {"commitment"}
      [] n = "9" -> {"reminder_accepted", "reminder_frequency",
                     "reminder_date"}
      [] OTHER -> {}
\* the part of a state that holds the given channels (absent when unset)
Restrict(state, fields) ==
    [k \in (DOMAIN state) \cap fields |-> state[k]]
NoEpisode == [stage |-> "none", changes |-> 0]

\* what the caller of step shows the user after a node execution: the
\* assistant message of a returned execution, the standard message for a
\* failed turn (the error itself goes to the log), nothing new while the
\* node waits at its interrupt
STANDARD_MESSAGE == "I'm experiencing some technical difficulties right now."
NothingShown == ""
\* a caller that shows the user the error of the failed turn
userFacingReplyRaw(res) ==
    IF res.status = "threw" THEN res.error.label
    ELSE IF res.status = "returned"
    THEN res.update.messages[Len(res.update.messages)].content
    ELSE NothingShown

userFacingReply(res) ==
    IF res.status = "threw" THEN STANDARD_MESSAGE
    ELSE IF res.status = "returned"
    THEN res.update.messages[Len(res.update.messages)].content
    ELSE NothingShown

InitRun ==
    /\ st = InitialState
    /\ node \in EntryNodes
    /\ pc = "start"
    /\ effects = <<>>
    /\ last = [node |-> "none", before |-> InitialState,
                entered |-> InitialState, resume |-> NoResume,
                rewrite |-> FALSE, exhausted |-> FALSE, chatCalls |-> 0,
                shown |-> NothingShown,
                res |-> [status |-> "none", effects |-> <<>>,
                         update |-> <<>>, modelCalls |-> 0,
                         failed |-> FALSE, logged |-> <<>>]]
    /\ exec = NewVisit(InitialState)
    /\ streak = NoStreak
    /\ episode = NoEpisode

Init == InitRun /\ invocation = NoInvocation /\ threads = NoThreads

\* the streak after node n returned with the merged state s
NextStreak(n, s) ==
    IF n \notin PrimaryNodes \cup RetryNodes \/ s[FlagOf(n)] THEN NoStreak
    ELSE [stage |-> StageOf(n),
          n |-> IF streak.stage = StageOf(n) THEN streak.n + 1 ELSE 1,
          retries |-> IF n \in RetryNodes /\ streak.stage = StageOf(n)
                      THEN streak.retries + 1 ELSE 0]

\* the episode after node n returned and took the state from s to t;
\* changes counted up to MaxChanges
NextEpisode(n, s, t) ==
    IF n \notin FactNodes THEN NoEpisode
    ELSE LET stage == IF n = "9" THEN "9" ELSE StageOf(n)
             sofar == IF episode.stage = stage THEN episode.changes ELSE 0
             changed == Restrict(s, FactFields(n)) # Restrict(t, FactFields(n))
         IN  [stage |-> stage,
              changes |-> IF changed /\ sofar < MaxChanges
                          THEN sofar + 1 ELSE sofar]

\* the record kept of a node execution
Executed(res, resume, attempts, rewrite) ==
    [node |-> node, before |-> st, entered |-> exec.before,
     shown |-> userFacingReply(res),
     resume |-> resume, rewrite |-> rewrite,
     exhausted |-> attempts \in [1..MAX_RETRIES ->
                      Failures(Replies(node), ValidatorOf(node))],
     chatCalls |-> exec.chat + CountCalls(res.effects, "upsertChat"),
     res |-> [res EXCEPT !.effects = <<>>]]

\* what a finished node execution does to the run
Finish(res, resume, attempts, rewrite) ==
    /\ effects' = res.effects
    /\ last' = Executed(res, resume, attempts, rewrite)
    /\ IF res.status = "returned"
       THEN LET merged == ApplyUpdate(st, res.update)
                nxt == Route(node, merged)
            IN  /\ st' = merged
                /\ node' = nxt
                /\ pc' = IF nxt = "END" THEN "halted" ELSE "enter"
                /\ exec' = NewVisit(merged)
                /\ streak' = NextStreak(node, merged)
                /\ episode' = NextEpisode(node, st, merged)
       ELSE /\ exec.fails < MaxFails
            /\ st' = ApplyUpdate(st, res.update)
            /\ exec' = [exec EXCEPT !.fails = @ + 1]
            /\ UNCHANGED <<node, pc, streak, episode>>

\* step(threadId) of a new run: the entry node runs to its end
Start ==
    /\ pc = "start"
    /\ \E attempts \in Attempts(Replies(node), ValidatorOf(node)),
          rewrite \in TurnRewrites(st), fails \in TurnFailures(st) :
          Finish(Persist(RunNode(node, st, NoResume, attempts, rewrite),
                         fails),
                 NoResume, attempts, rewrite)
    /\ UNCHANGED <<invocation, threads>>

\* the scheduled node runs up to its interrupt and the run suspends
Enter ==
    /\ pc = "enter"
    /\ \E fails \in TurnFailures(st) :
       LET res == Persist(RunNode(node, st, NoResume, <<>>, FALSE), fails)
       IN  /\ res.status = "interrupted"
           /\ effects' = res.effects
           /\ st' = ApplyUpdate(st, res.update)
           /\ exec' = [exec EXCEPT !.chat = @ + CountCalls(res.effects,
                                                           "upsertChat")]
           /\ pc' = "suspended"
           /\ last' = Executed(res, NoResume, <<>>, FALSE)
    /\ UNCHANGED <<node, streak, episode, invocation, threads>>

\* step(threadId, input): the suspended node is executed again with the
\* input as the value of interrupt
Resume ==
    /\ pc = "suspended"
    /\ Len(st.messages) + 2 <= MaxMessages
    /\ \E raw \in TurnInputs(st),
          attempts \in Attempts(Replies(node), ValidatorOf(node)),
          rewrite \in TurnRewrites(st), fails \in TurnFailures(st) :
          Finish(Persist(RunNode(node, st, ResumeWith(raw), attempts,
                                 rewrite), fails),
                 ResumeWith(raw), attempts, rewrite)
    /\ UNCHANGED <<invocation, threads>>

Next == Start \/ Enter \/ Resume

Spec == Init /\ [][Next]_vars

(***************************************************************************)
(* retryLlmCall on its own: any three attempts, any label, either          *)
(* validator.                                                              *)
(***************************************************************************)
Labels == {"Node 2", "Node 1a1"}
Validators == {"validateSimpleResponse", "validateStructuredResponse"}
AnyAttempts ==
    [1..MAX_RETRIES -> {Thrown} \cup {Candidate(r) : r \in PlainReplies \cup TextReplies}]

InitRetry ==
    /\ InitRun
    /\ invocation \in [done : {FALSE}, attempts : AnyAttempts,
                       label : Labels, validator : Validators]
    /\ threads = NoThreads

Invoke ==
    /\ ~invocation.done
    /\ invocation' =
          [done |-> TRUE, attempts |-> invocation.attempts,
           label |-> invocation.label, validator |-> invocation.validator,
           result |-> retryLlmCall(invocation.attempts, invocation.label,
                                   invocation.validator)]
    /\ UNCHANGED <<st, node, pc, effects, last, exec, streak, episode,
                   threads>>

NextRetry == Invoke

SpecRetry == InitRetry /\ [][NextRetry]_vars

(***************************************************************************)
(* Concurrent runs: the checkpoint store is keyed by thread id; a step     *)
(* loads the checkpoint of its thread, runs the scheduled node on it and   *)
(* saves the result under the same thread id.                              *)
(***************************************************************************)
ThreadIds == {1, 2}
Checkpoint(state, n, p) == [st |-> state, node |-> n, pc |-> p]
LoadCheckpoint(store, t) == store[t]
\* a store that keeps one checkpoint for all threads
SaveCheckpointShared(store, t, c) == [u \in DOMAIN store |-> c]

SaveCheckpoint(store, t, c) == [store EXCEPT ![t] = c]

\* the checkpoint after one node execution on checkpoint c
StepCheckpoint(c, resume, attempts, rewrite) ==
    LET res == RunNode(c.node, c.st, resume, attempts, rewrite)
        merged == ApplyUpdate(c.st, res.update)
    IN  IF res.status = "returned"
        THEN Checkpoint(merged, Route(c.node, merged),
                        IF Route(c.node, merged) = "END" THEN "halted"
                        ELSE "enter")
        ELSE IF res.status = "interrupted"
        THEN Checkpoint(merged, c.node, "suspended")
        ELSE c

\* what the model does in a step of a concurrent run: it answers at the
\* first attempt or fails every attempt
ThreadAttempts(n) ==
    {FirstTry(c.value) : c \in Successes(Replies(n), ValidatorOf(n))}
    \cup {[i \in 1..MAX_RETRIES |-> Thrown]}

\* each run has its own user, who sends the same text every turn
ThreadInput(t) == [text |-> IF t = 1 THEN DEFAULT_TEXT ELSE "overwhelmed"]

InitThreads ==
    /\ InitRun
    /\ invocation = NoInvocation
    /\ \E entry \in [ThreadIds -> EntryNodes] :
          LET store == [t \in ThreadIds |->
                           Checkpoint(InitialState, entry[t], "start")]
          IN  threads = [cp |-> store, solo |-> store]

\* step of thread t: the run of t takes its next node execution
ThreadStep(t) ==
    LET c == LoadCheckpoint(threads.cp, t)
    IN  /\ c.pc # "halted"
        /\ c.pc = "suspended" =>
              Len(c.st.messages) < 1 + 2 * MaxThreadTurns
        /\ \E attempts \in ThreadAttempts(c.node) :
              LET resume == IF c.pc = "suspended"
                            THEN ResumeWith(ThreadInput(t)) ELSE NoResume
              IN  threads' =
                    [cp |-> SaveCheckpoint(threads.cp, t,
                               StepCheckpoint(c, resume, attempts, FALSE)),
                     solo |-> [threads.solo EXCEPT ![t] =
                               StepCheckpoint(@, resume, attempts, FALSE)]]
        /\ UNCHANGED <<st, node, pc, effects, last, exec, streak, episode,
                       invocation>>

NextThreads == \E t \in ThreadIds : ThreadStep(t)

SpecThreads == InitThreads /\ [][NextThreads]_vars

(***************************************************************************)
(* Properties.                                                             *)
(***************************************************************************)
IsPrefix(a, b) == Len(a) <= Len(b) /\ \A i \in 1..Len(a) : a[i] = b[i]
ReturnedBy(nodes) == last.node \in nodes /\ last.res.status = "returned"

\* C1: in the disagreement exploration loop, INTERACTION_LIMIT consecutive
\* executions of node5retry that end "not yet resolved" force the next
\* execution to end "resolved": the loop never sees one more unresolved
\* execution in a row.
C1_CapForcesResolved ==
    streak.stage = "5" => streak.retries <= INTERACTION_LIMIT

\* C2: in the commitment loop (node8, then node8retry) the fourth
\* consecutive weak answer is forced to signal resolved: there are never
\* four unresolved executions of the stage in a row.
C2_FourthAnswerForced ==
    streak.stage = "8" => streak.n < 4

\* C2 (amended): the commitment loop never forces the signal; after every
\* execution of node8 or node8retry proceed_node_8 is the proceed of the
\* validated reply, and the run goes to node9 when it is true and to
\* node8retry again when it is false, however long the streak is.
C2_SignalIsReplyProceed ==
    ReturnedBy({"8", "8_retry"}) =>
        /\ st.proceed_node_8 = last.res.reply.proceed
        /\ node = IF last.res.reply.proceed THEN "9" ELSE "8_retry"
C2_Witness ==
    /\ streak.stage = "8" /\ streak.n = 4
    /\ node = "8_retry"
    /\ ~st.proceed_node_8

\* C3: messages is only appended to: across every step its old value is a
\* prefix of its new value (same entries, same positions).
C3_MessagesAppendOnly ==
    [][IsPrefix(st.messages, st'.messages)]_vars
C3_Witness ==
    /\ Len(st.messages) >= 5
    /\ last.res.status = "returned"
    /\ IsPrefix(last.before.messages, st.messages)
    /\ Len(st.messages) = Len(last.before.messages) + 2

\* C4: retryLlmCall makes at most MAX_RETRIES calls, returns the first
\* candidate its validator accepts (calling the model no further), and
\* fails with the "exhausted" error carrying the label when no attempt is
\* accepted.
C4_Acceptable(i) ==
    /\ invocation.attempts[i].kind = "reply"
    /\ Accepts(invocation.validator, invocation.attempts[i].value)
C4_RetryContract ==
    invocation.done =>
        /\ invocation.result.calls \in 1..MAX_RETRIES
        /\ \A i \in 1..MAX_RETRIES :
              (C4_Acceptable(i) /\ \A j \in 1..(i - 1) : ~C4_Acceptable(j)) =>
                  /\ invocation.result.ok
                  /\ invocation.result.calls = i
                  /\ invocation.result.value = invocation.attempts[i].value
        /\ (\A i \in 1..MAX_RETRIES : ~C4_Acceptable(i)) =>
              /\ ~invocation.result.ok
              /\ invocation.result.calls = MAX_RETRIES
              /\ invocation.result.error.name = "exhausted"
              /\ invocation.result.error.label = invocation.label
C4_Witness ==
    /\ invocation.done
    /\ ~C4_Acceptable(1) /\ C4_Acceptable(2) /\ C4_Acceptable(3)
    /\ invocation.result.ok /\ invocation.result.calls = 2
C4_WitnessExhausted ==
    /\ invocation.done
    /\ \A i \in 1..MAX_RETRIES : ~C4_Acceptable(i)
    /\ invocation.result.error.label = "Node 2"

\* C5: an execution whose model call succeeds only on the third attempt
\* gives the update, the merged state and the persistence calls of an
\* execution whose first attempt returns the same reply, and appends each
\* message once.
C5_RetriesInvisible ==
    (last.res.status = "returned" /\ last.res.modelCalls = MAX_RETRIES) =>
        LET immediate == RunNode(last.node, last.before, last.resume,
                                 FirstTry(last.res.reply), last.rewrite)
        IN  /\ immediate.status = "returned"
            /\ immediate.modelCalls = 1
            /\ last.res.update = immediate.update
            /\ effects = immediate.effects
            /\ st = ApplyUpdate(last.before, immediate.update)
            /\ node = Route(last.node, st)
            /\ Len(st.messages) - Len(last.before.messages)
                  = IF last.node \in EntryNodes THEN 1 ELSE 2
C5_Witness ==
    /\ ReturnedBy({"4"})
    /\ last.res.modelCalls = MAX_RETRIES
    /\ Len(st.messages) = Len(last.before.messages) + 2

\* C6: a node execution in which every attempt of retryLlmCall fails ends
\* the turn with the error: the state is left as it was, the run stays at
\* the same node, and no mood, commitment or reminder call is made.
C6_ExhaustionLeavesState ==
    [][last'.exhausted =>
          /\ last'.res.status = "threw"
          /\ last'.res.error.name = "exhausted"
          /\ st' = st
          /\ node' = node /\ pc' = pc
          /\ \A i \in DOMAIN effects' : effects'[i].fn = "upsertChat"]_vars
C6_Witness ==
    /\ last.exhausted /\ last.node = "8" /\ last.res.status = "threw"
    /\ pc = "suspended" /\ st = last.before

\* C7: upsertChat is called once for a suspending node that is resumed
\* and returns, not once when it suspends and again when it is resumed.
C7_ChatOncePerVisit ==
    ReturnedBy(SuspendingNodes) => last.chatCalls = 1

\* C8: a node that suspended and was resumed with an input leaves the
\* state that running it once, with the input at hand, on the state it
\* was entered with would leave.
C8_ResumeIsSynchronous ==
    (last.res.status = "returned" /\ last.node \in SuspendingNodes) =>
        LET sync == RunNode(last.node, last.entered, last.resume,
                            FirstTry(last.res.reply), last.rewrite)
        IN  st = ApplyUpdate(last.entered, sync.update)
C8_Witness ==
    /\ ReturnedBy({"2"})
    /\ last.resume.value.text = "overwhelmed"
    /\ st.messages[Len(st.messages) - 1] = HumanMessage("overwhelmed")

\* C9: from a primary stage 2..8 and from its retry variant, "not yet
\* resolved" leads to the retry variant (never to the primary stage) and
\* "resolved" leads to the next stage of the sequence.
C9_RetryRouting ==
    ReturnedBy(PrimaryNodes \cup RetryNodes) =>
        /\ node = IF last.res.reply.proceed
                  THEN Successor(StageOf(last.node))
                  ELSE RetryOf(StageOf(last.node))
        /\ ~last.res.reply.proceed => node \in RetryNodes
C9_Witness ==
    /\ ReturnedBy({"6_retry"})
    /\ ~last.res.reply.proceed
    /\ node = "6_retry"
C9_WitnessAdvance ==
    ReturnedBy({"8_retry"}) /\ last.res.reply.proceed /\ node = "9"

\* C10: a reply of the mood stage with proceed = true and mood =
\* "overwhelmed" writes that mood, sets proceed_node_2, calls upsertMood
\* exactly once with that mood, and the run goes on to node3.
C10_Case ==
    /\ ReturnedBy({"2", "2_retry"})
    /\ last.res.reply.proceed
    /\ HasKey(last.res.reply, "mood")
    /\ last.res.reply.mood = "overwhelmed"
C10_MoodResolved ==
    C10_Case =>
        /\ st.mood = "overwhelmed"
        /\ st.proceed_node_2
        /\ CountCalls(effects, "upsertMood") = 1
        /\ \A i \in DOMAIN effects :
              effects[i].fn = "upsertMood" =>
                  effects[i].state.mood = "overwhelmed"
        /\ node = "3"
C10_Witness ==
    C10_Case /\ last.node = "2" /\ node = "3" /\ pc = "enter"

\* C11: an execution of node2 or node2retry that ends "not yet resolved"
\* leaves the mood channel of the state unset, and the run loops to
\* node2retry.
MoodUnset(state) == ~HasKey(state, "mood")
C11_Case == ReturnedBy({"2", "2_retry"}) /\ ~last.res.reply.proceed
C11_UnresolvedLeavesMoodUnset ==
    C11_Case => MoodUnset(st) /\ node = "2_retry"

\* C12: within one episode (the executions of the owning stage and its
\* retry variant, from the first entry to the resolved execution) the
\* value of the derived fact in the state changes at most once.
C12_FactChangesOncePerEpisode ==
    episode.changes <= 1

\* C13: an execution that writes a derived fact (mood, commitment, a
\* reminder frequency or date) into its state update calls the matching
\* collaborator (upsertMood, upsertCommitment, upsertReminder) in the same
\* execution, whatever its routing signal is.
Writes(update, fields) == (DOMAIN update) \cap fields # {}
C13_FactSetIsPersisted ==
    last.res.status = "returned" =>
        /\ Writes(last.res.update, {"mood"}) =>
              CountCalls(effects, "upsertMood") = 1
        /\ Writes(last.res.update, {"commitment"}) =>
              CountCalls(effects, "upsertCommitment") = 1
        /\ Writes(last.res.update, {"reminder_frequency", "reminder_date"}) =>
              CountCalls(effects, "upsertReminder") = 1

\* C14: the channels of a derived fact are changed only by the executions
\* of its owning nodes: mood by node2 and node2retry, commitment by node8
\* and node8retry, the reminder channels by node9; after an execution of
\* any other node they are as they were before it.
Owners(field) ==
    CASE field = "mood" -> {"2", "2_retry"}
      [] field = "commitment" -> {"8", "8_retry"}
      [] OTHER -> {"9"}
FactChannels ==
    {"mood", "commitment", "reminder_accepted", "reminder_frequency",
     "reminder_date"}
C14_OnlyOwnerWritesFact ==
    \A f \in FactChannels :
        last.node \notin Owners(f) =>
            /\ Restrict(st, {f}) = Restrict(last.before, {f})
            /\ last.res.status = "returned" => ~HasKey(last.res.update, f)
C14_Witness ==
    /\ ReturnedBy({"10"})
    /\ HasKey(st, "mood") /\ st.mood = "overwhelmed"
    /\ HasKey(st, "commitment") /\ st.commitment = "walk daily"
    /\ HasKey(st, "reminder_frequency") /\ st.reminder_frequency = "daily"

\* C15: the state handed to upsertMood, upsertCommitment or upsertReminder
\* is the full state of the run after the turn: its messages are the
\* transcript before the turn followed by the turn's human and assistant
\* messages, and it carries the derived fact just written.
FactCalls == {"upsertMood", "upsertCommitment", "upsertReminder"}
C15_FactCallGetsFullState ==
    \A i \in DOMAIN effects :
        effects[i].fn \in FactCalls =>
            /\ effects[i].state.messages = st.messages
            /\ Len(effects[i].state.messages)
                  = Len(last.before.messages) + 2
            /\ Restrict(effects[i].state, FactChannels)
                  = Restrict(st, FactChannels)

\* C16: an execution during which the persistence collaborators fail has
\* the failures logged and ends as it would have without them: it is not
\* ended by the failure, and when it returns, its update (messages,
\* routing flag, derived fact) is merged and the run is routed on it.
C16_Case == last.res.failed
C17_OnlyContinuationHalts ==
    /\ ReturnedBy({"9"}) => node = "10" /\ pc = "enter"
    /\ ReturnedBy({"10"}) =>
          /\ st.proceed_node_10 = last.res.reply.proceed
          /\ node = IF last.res.reply.proceed THEN "END" ELSE "10"
    /\ (pc = "halted") = (node = "END")
    /\ pc = "halted" => ReturnedBy({"10"}) /\ last.res.reply.proceed
C17_Witness ==
    /\ pc = "halted" /\ node = "END"
    /\ ReturnedBy({"10"}) /\ st.proceed_node_10
C17_WitnessLoop ==
    /\ ReturnedBy({"10"}) /\ ~last.res.reply.proceed
    /\ HasKey(last.before, "proceed_node_10")
    /\ ~last.before.proceed_node_10
    /\ node = "10" /\ pc = "enter"

\* C18: under every interleaving of the steps of two runs with distinct
\* thread ids, the state and the suspension point of each run are those of
\* the same run taking its own steps alone.
C18_ThreadsIndependent ==
    \A t \in DOMAIN threads.cp :
        LoadCheckpoint(threads.cp, t) = threads.solo[t]
C18_Witness ==
    /\ DOMAIN threads.cp = ThreadIds
    /\ \A t \in ThreadIds : Len(threads.cp[t].st.messages) >= 3
    /\ threads.cp[1].node = "2_retry" /\ threads.cp[1].pc = "suspended"
    /\ threads.cp[2].node = "3" /\ threads.cp[2].pc = "enter"
    /\ threads.cp[1].st # threads.cp[2].st

\* C19: the identity channels (user_name, user_summary, archetype, time)
\* hold the values the run started with after every node execution, and
\* no update of a node names them.
IdentityFields == {"user_name", "user_summary", "archetype", "time"}
C19_IdentityUnchanged ==
    /\ Restrict(st, IdentityFields) = Restrict(InitialState, IdentityFields)
    /\ last.res.status = "returned" =>
          (DOMAIN last.res.update) \cap IdentityFields = {}
C19_Witness ==
    /\ ReturnedBy({"3_retry"})
    /\ st.user_name = "Ada" /\ st.time = "09:00"
    /\ Len(st.messages) >= 7

\* C20: every returned execution of a node of stages 2 to 8 (primary or
\* retry) or of node10 names its routing flag in its update with the
\* proceed of its reply, so the flag the following edge reads is the signal
\* of that execution, whatever an earlier visit left in the channel.
FlagNodes == PrimaryNodes \cup RetryNodes \cup {"10"}
C20_FlagWrittenEveryExecution ==
    ReturnedBy(FlagNodes) =>
        /\ HasKey(last.res.update, FlagOf(last.node))
        /\ last.res.update[FlagOf(last.node)] = last.res.reply.proceed
        /\ st[FlagOf(last.node)] = last.res.reply.proceed
        /\ node = Route(last.node, st)
C20_Witness ==
    /\ ReturnedBy({"7_retry"})
    /\ HasKey(last.before, "proceed_node_7")
    /\ ~last.before.proceed_node_7
    /\ st.proceed_node_7 /\ node = "8"

(***************************************************************************)
(* The run with its scheduler: once a node has returned, the Scheduler     *)
(* executes the node the edge leads to (weak fairness of Enter).           *)
(***************************************************************************)
\* the turns taken here: the default text, a refiner that keeps the text,
\* collaborators that succeed, and a model that answers at the first
\* attempt or fails every attempt
QuietTurn ==
    /\ last.res.modelCalls <= 1 \/ last.exhausted
    /\ ~last.rewrite /\ ~last.res.failed
    /\ last.resume.has => last.resume.value = [text |-> DEFAULT_TEXT]
NextLive == Next /\ QuietTurn'

SpecLive == Init /\ [][NextLive]_vars /\ WF_vars(Enter /\ QuietTurn')

\* C21: a step ends with the run suspended or halted: whenever a node has
\* returned and another node is scheduled, that node reaches its interrupt
\* (or the run has halted), so the Scheduler never keeps executing nodes.
C21_StepTerminates ==
    (pc = "enter") ~> (pc \in {"suspended", "halted"})
C21_Witness ==
    /\ pc = "suspended" /\ node = "4_retry"
    /\ last.node = "4_retry" /\ last.res.status = "interrupted"

C24_Complete(i) ==
    /\ invocation.attempts[i].kind = "reply"
    /\ "response" \in DOMAIN invocation.attempts[i].value
C25_Blank == {"", " "}
C25_NoEmptyReply ==
    ReturnedBy({"1a1", "1b1", "1a2"}) =>
        LET new == last.res.update.messages
        IN  /\ last.res.reply.content \notin C25_Blank
            /\ new[Len(new)].role = "ai"
            /\ new[Len(new)].content \notin C25_Blank
            /\ st.messages[Len(st.messages)] = new[Len(new)]
C25_Witness ==
    /\ ReturnedBy({"1a2"})
    /\ last.res.modelCalls = MAX_RETRIES
    /\ st.messages[Len(st.messages)] = AIMessage("ok")

\* C26: the user is shown the standard technical-difficulty message
\* exactly when the turn failed because the retries were exhausted; what
\* is shown is never the name or the label of the error nor the name of a
\* persistence collaborator, and a collaborator's failure shows nothing
\* but the assistant reply.
C26_InternalTexts ==
    {"exhausted", "persistence", "upsertChat"} \cup FactCalls
    \cup {"Node 1a1", "Node 1b1", "Node 1a2", "Node 2", "Node 2_retry",
          "Node 3", "Node 3_retry", "Node 4", "Node 4_retry", "Node 5",
          "Node 5_retry", "Node 6", "Node 6_retry", "Node 7", "Node 7_retry",
          "Node 8", "Node 8_retry", "Node 9", "Node 10"}
C26_WitnessPersistence ==
    /\ ReturnedBy({"2"}) /\ last.res.failed
    /\ last.shown = "ok"

\* C27: after node9 returns, the state holds at most one of
\* reminder_frequency and reminder_date, and so does the state passed to
\* upsertReminder.
C27_Both(state) ==
    Truthy(state, "reminder_frequency") /\ Truthy(state, "reminder_date")
C27_OneReminderPreference ==
    ReturnedBy({"9"}) =>
        /\ ~C27_Both(st)
        /\ \A i \in DOMAIN effects :
              effects[i].fn = "upsertReminder" => ~C27_Both(effects[i].state)

\* C28: node9 writes reminder_accepted, reminder_frequency and
\* reminder_date only when the reply has reminder_accepted = true, and it
\* calls upsertReminder exactly when the reply is accepted and carries a
\* non-empty frequency or date; a reply that is not accepted writes only
\* the two messages and makes no reminder call.
C28_ReminderFields ==
    {"reminder_accepted", "reminder_frequency", "reminder_date"}
C28_ReminderOnlyWhenAccepted ==
    ReturnedBy({"9"}) =>
        LET r == last.res.reply
            accepted == TruthyFlag(r, "reminder_accepted")
            preference == Truthy(r, "reminder_frequency")
                          \/ Truthy(r, "reminder_date")
        IN  /\ Writes(last.res.update, C28_ReminderFields) => accepted
            /\ CountCalls(effects, "upsertReminder")
                  = IF accepted /\ preference THEN 1 ELSE 0
            /\ ~accepted =>
                  /\ DOMAIN last.res.update = {"messages"}
                  /\ Restrict(st, C28_ReminderFields)
                        = Restrict(last.before, C28_ReminderFields)
C28_Witness ==
    /\ ReturnedBy({"9"})
    /\ last.res.reply = [response |-> "ok", reminder_accepted |-> FALSE,
                         reminder_frequency |-> "daily"]
    /\ CountCalls(effects, "upsertReminder") = 0
C28_WitnessAccepted ==
    /\ ReturnedBy({"9"})
    /\ last.res.reply = [response |-> "ok", reminder_accepted |-> TRUE,
                         reminder_date |-> "2025-01-01"]
    /\ CountCalls(effects, "upsertReminder") = 1
    /\ st.reminder_date = "2025-01-01"

\* C29: node1a1 and node1b1 never stop at an interrupt: the run is never
\* suspended at one of them, and an execution of theirs that returns
\* appends exactly one message, the assistant reply; the human message
\* "Hi" they send to the model is in no update and nowhere in messages.
C29_EntryAppendsOneReply ==
    /\ pc = "suspended" => node \notin EntryNodes
    /\ last.node \in EntryNodes =>
          ~last.resume.has /\ last.res.status \in {"returned", "threw"}
    /\ ReturnedBy(EntryNodes) =>
          /\ last.res.sent = <<HumanMessage("Hi")>>
          /\ Len(last.res.update.messages) = 1
          /\ last.res.update.messages[1].role = "ai"
          /\ st.messages = last.before.messages \o last.res.update.messages
          /\ Len(st.messages) = 1
    /\ \A i \in DOMAIN st.messages : st.messages[i] # HumanMessage("Hi")
C29_Witness ==
    /\ ReturnedBy({"1b1"})
    /\ last.res.sent = <<HumanMessage("Hi")>>
    /\ st.messages = <<AIMessage("ok")>>
    /\ pc = "enter"

\* C30: once the entry node has returned, messages starts with an
\* assistant message and alternates assistant, human, assistant, ..., so
\* it ends with an assistant message whenever the run waits for input;
\* the two messages a resumed node appends are the human message with the
\* text of this input and the assistant reply of the same execution.
C30_Role(i) == IF i % 2 = 1 THEN "ai" ELSE "human"
C30_MessagesAlternate ==
    pc # "start" =>
        /\ Len(st.messages) >= 1
        /\ \A i \in DOMAIN st.messages : st.messages[i].role = C30_Role(i)
        /\ st.messages[Len(st.messages)].role = "ai"
        /\ (last.res.status = "returned" /\ last.resume.has) =>
              LET new == last.res.update.messages
                  n == Len(last.before.messages)
              IN  /\ Len(new) = 2
                  /\ new[1] = HumanMessage(
                                 extractUserResponse(last.resume.value))
                  /\ new[2].role = "ai"
                  /\ st.messages[n + 1] = new[1]
                  /\ st.messages[n + 2] = new[2]
C30_Witness ==
    /\ pc = "suspended" /\ node = "3"
    /\ Len(st.messages) = 3
    /\ st.messages[2] = HumanMessage("overwhelmed")
    /\ st.messages[3].role = "ai"

\* C31: a step that resumes a suspended run executes the suspended node
\* and no other: when the node returns, messages grows by exactly the
\* human message with the input and one assistant message, at most one
\* routing flag is written and the other flags keep their values, and the
\* run goes on to the next node or halts; when the turn fails, the state is
\* left as it was and the run stays suspended at the node.
RoutingFlags == {FlagOf(n) : n \in FlagNodes}
C31_ResumeRunsOneNode ==
    [][(pc = "suspended" /\ last'.resume.has) =>
          /\ last'.node = node
          /\ last'.before = st
          /\ IF last'.res.status = "returned"
             THEN LET written == (DOMAIN last'.res.update) \cap RoutingFlags
                  IN  /\ Len(st'.messages) = Len(st.messages) + 2
                      /\ SubSeq(st'.messages, 1, Len(st.messages))
                            = st.messages
                      /\ st'.messages[Len(st.messages) + 1]
                            = HumanMessage(
                                 extractUserResponse(last'.resume.value))
                      /\ st'.messages[Len(st.messages) + 2].role = "ai"
                      /\ Cardinality(written) <= 1
                      /\ Restrict(st', RoutingFlags \ written)
                            = Restrict(st, RoutingFlags \ written)
                      /\ pc' \in {"enter", "halted"}
             ELSE /\ last'.res.status = "threw"
                  /\ st' = st
                  /\ pc' = "suspended" /\ node' = node]_vars
C31_Witness ==
    /\ ReturnedBy({"6"}) /\ last.resume.has
    /\ Len(st.messages) = Len(last.before.messages) + 2
    /\ (DOMAIN last.res.update) \cap RoutingFlags = {"proceed_node_6"}
    /\ pc = "enter"
C31_WitnessFailed ==
    /\ last.node = "5" /\ last.resume.has /\ last.res.status = "threw"
    /\ st = last.before /\ pc = "suspended"

\* C32: the state handed to upsertMood holds the mood of the reply, which
\* is neither empty nor "assessing"; the state handed to upsertCommitment
\* holds proceed_node_8 = true and the non-empty commitment of the reply;
\* the state handed to upsertReminder holds reminder_accepted = true and
\* a non-empty frequency or date.
C32_NoSentinelPersisted ==
    \A i \in DOMAIN effects :
        LET arg == effects[i].state
        IN  /\ effects[i].fn = "upsertMood" =>
                  /\ Truthy(arg, "mood") /\ arg.mood # "assessing"
                  /\ arg.mood = last.res.reply.mood
            /\ effects[i].fn = "upsertCommitment" =>
                  /\ TruthyFlag(arg, "proceed_node_8")
                  /\ last.res.reply.proceed
                  /\ Truthy(arg, "commitment")
                  /\ arg.commitment = last.res.reply.commitment
            /\ effects[i].fn = "upsertReminder" =>
                  /\ TruthyFlag(arg, "reminder_accepted")
                  /\ Truthy(arg, "reminder_frequency")
                        \/ Truthy(arg, "reminder_date")
C32_Witness ==
    /\ ReturnedBy({"2_retry"})
    /\ last.res.reply.mood = "assessing"
    /\ st.mood = "assessing"
    /\ CountCalls(effects, "upsertMood") = 0
C32_WitnessCommitment ==
    /\ ReturnedBy({"8_retry"})
    /\ CountCalls(effects, "upsertCommitment") = 1
    /\ effects[Len(effects)].state.commitment = "walk daily"

\* C33: whenever the run waits for input or has halted, every message in
\* messages has been handed to upsertChat: the last execution made an
\* upsertChat call with the transcript as it now stands.
C33_TranscriptRecorded ==
    pc \in {"suspended", "halted"} =>
        \E i \in DOMAIN effects :
            /\ effects[i].fn = "upsertChat"
            /\ effects[i].state.messages = st.messages

\* C34: what a returned execution writes besides messages is what the
\* validated reply says, and the refinement step decides nothing but the
\* text of the assistant message: the same execution with the other
\* outcome of the refiner appends the same human message, writes the same
\* flag and facts, makes the same persistence calls with the same flag and
\* facts, and leads to the same node.
C34_Frame(state) == Restrict(state, (DOMAIN state) \ {"messages"})
C34_FromReply(update, reply) ==
    \A k \in (DOMAIN update) \ {"messages"} :
        IF k \in RoutingFlags THEN update[k] = reply.proceed
        ELSE HasKey(reply, k) /\ update[k] = reply[k]
C34_RefinerChangesOnlyText ==
    last.res.status = "returned" =>
        LET other == RunNode(last.node, last.before, last.resume,
                             FirstTry(last.res.reply), ~last.rewrite)
            mine == last.res.update.messages
            theirs == other.update.messages
        IN  /\ C34_FromReply(last.res.update, last.res.reply)
            /\ other.status = "returned"
            /\ C34_Frame(other.update) = C34_Frame(last.res.update)
            /\ Len(theirs) = Len(mine)
            /\ \A i \in 1..(Len(mine) - 1) : theirs[i] = mine[i]
            /\ theirs[Len(theirs)].role = "ai"
            /\ theirs[Len(theirs)].content # mine[Len(mine)].content
            /\ Called(other.effects) = Called(effects)
            /\ \A i \in DOMAIN effects :
                  C34_Frame(other.effects[i].state)
                     = C34_Frame(effects[i].state)
            /\ Route(last.node, ApplyUpdate(last.before, other.update)) = node
C34_Witness ==
    /\ ReturnedBy({"2"}) /\ last.rewrite
    /\ st.messages[Len(st.messages)] = AIMessage(REFINED)
    /\ last.res.reply = [response |-> "ok", proceed |-> FALSE,
                         mood |-> "overwhelmed"]
    /\ ~st.proceed_node_2 /\ st.mood = "overwhelmed"

\* C35: the only routing flag in the update of node N or node N_retry
\* (N = 2..8) is proceed_node_N, and that of node10 is proceed_node_10;
\* node1a1, node1b1, node1a2 and node9 name no routing flag; every flag
\* an execution does not name keeps the value it had, or stays unset.
C35_Flagless == {"1a1", "1b1", "1a2", "9"}
C35_Written ==
    IF last.res.status = "returned"
    THEN (DOMAIN last.res.update) \cap RoutingFlags
    ELSE {}
C35_OwnFlagOnly ==
    /\ ReturnedBy(FlagNodes) => C35_Written = {FlagOf(last.node)}
    /\ last.node \in C35_Flagless => C35_Written = {}
    /\ Restrict(st, RoutingFlags \ C35_Written)
          = Restrict(last.before, RoutingFlags \ C35_Written)
C35_Witness ==
    /\ ReturnedBy({"5_retry"})
    /\ C35_Written = {"proceed_node_5"}
    /\ st.proceed_node_5 /\ ~last.before.proceed_node_5
    /\ st.proceed_node_4 /\ st.proceed_node_2
C35_WitnessFlagless ==
    /\ ReturnedBy({"9"})
    /\ C35_Written = {}
    /\ Restrict(st, RoutingFlags) = Restrict(last.before, RoutingFlags)
    /\ st.proceed_node_8

====
